---------------------------- MODULE Spec2Model ----------------------------
(***************************************************************************)
(* Model of src/lib/dynamicStatisticalAnalyzer.py: the data-type           *)
(* classifier, the test selector, the three hypothesis tests and the       *)
(* ingestion wrapper perform_dynamic_check.                                 *)
(*                                                                         *)
(* Numbers.  A Python/numpy float is an extended rational: a record        *)
(* [k, n, d] with k = "nan", k = "inf" (n = 1 or -1) or k = "fin" (the     *)
(* reduced fraction n/d, d > 0).  Arithmetic on finite values is exact;    *)
(* np.sqrt rounds up to a multiple of 1/SqrtDen.  Signed zeros and         *)
(* rounding to 53 bits are not modelled.                                   *)
(*                                                                         *)
(* A sample value is an integer counting units of 1/Scale, so that         *)
(* Scale stands for 1.0 and a value that Scale does not divide is          *)
(* non-integral.                                                            *)
(*                                                                         *)
(* scipy's distribution functions are not part of the repository.  Their   *)
(* values at the special points (nan, 0, infinity, arguments outside the   *)
(* domain) are modelled exactly; their value at an ordinary argument is    *)
(* the variable scipy, which the initial state draws from a set that       *)
(* covers every order relation to the levels used.                         *)
(***************************************************************************)
EXTENDS Integers, Sequences, FiniteSets

VARIABLES
    request,     \* the call: its operation and arguments
    scipy,       \* what scipy's distributions return at an ordinary argument
    pc,          \* "ready" before the call, "done" after it
    inputs,      \* <<the StatisticalInputs analyze_data was given>>, or <<>>
    data_types,  \* analyze_data's data_type_a and data_type_b
    outcome      \* what the call returned or raised

vars == <<request, scipy, pc, inputs, data_types, outcome>>

-----------------------------------------------------------------------------
(* Bounds of the model *)

\* one unit of a sample value is 1/Scale
Scale == 2
\* np.sqrt is rounded up to a multiple of 1/SqrtDen
SqrtDen == 100
\* every sequence over Values up to this length is a sample
MaxLen == 2
\* the long integral samples have LongLen observations ...
LongLen == 12
\* ... and up to this many distinct values
MaxDistinct == 11
\* conversions and visitors of a variant
MaxVisitors == 2
\* variants passed to perform_dynamic_check
MaxVariants == 3

-----------------------------------------------------------------------------
(* Floats *)

Abs(i) == IF i < 0 THEN -i ELSE i

Sgn(i) == IF i < 0 THEN -1 ELSE IF i = 0 THEN 0 ELSE 1

RECURSIVE Gcd(_, _)
Gcd(a, b) == IF b = 0 THEN a ELSE Gcd(b, a % b)

NaN == [k |-> "nan", n |-> 0, d |-> 1]

Inf(s) == [k |-> "inf", n |-> s, d |-> 1]

Fin(n, d) ==
    LET m == IF d < 0 THEN -n ELSE n
        e == Abs(d)
        g == Gcd(Abs(m), e)
    IN  [k |-> "fin", n |-> m \div g, d |-> e \div g]

Num(i) == Fin(i, 1)

FNeg(x) == IF x.k = "nan" THEN NaN
           ELSE IF x.k = "inf" THEN Inf(-x.n)
           ELSE Fin(-x.n, x.d)

FAbs(x) == IF x.k = "nan" THEN NaN
           ELSE IF x.k = "inf" THEN Inf(1)
           ELSE Fin(Abs(x.n), x.d)

FAdd(x, y) ==
    IF x.k = "nan" \/ y.k = "nan" THEN NaN
    ELSE IF x.k = "inf" /\ y.k = "inf" THEN (IF x.n = y.n THEN x ELSE NaN)
    ELSE IF x.k = "inf" THEN x
    ELSE IF y.k = "inf" THEN y
    ELSE LET g == Gcd(x.d, y.d)
         IN  Fin(x.n * (y.d \div g) + y.n * (x.d \div g), x.d * (y.d \div g))

FSub(x, y) == FAdd(x, FNeg(y))

FMul(x, y) ==
    IF x.k = "nan" \/ y.k = "nan" THEN NaN
    ELSE IF x.k = "inf" \/ y.k = "inf"
         THEN (IF x.n = 0 \/ y.n = 0 THEN NaN ELSE Inf(Sgn(x.n) * Sgn(y.n)))
    ELSE LET g1 == Gcd(Abs(x.n), y.d)
             g2 == Gcd(Abs(y.n), x.d)
         IN  Fin((x.n \div g1) * (y.n \div g2), (x.d \div g2) * (y.d \div g1))

\* a division that yields 0 instead of dividing by zero
FDivZeroGuard(x, y) ==
    IF x.k = "nan" \/ y.k = "nan" THEN NaN
    ELSE IF x.k = "inf"
         THEN (IF y.k = "inf" THEN NaN
               ELSE Inf(IF y.n < 0 THEN -x.n ELSE x.n))
    ELSE IF y.k = "inf" THEN Num(0)
    ELSE IF y.n = 0 THEN Num(0)
    ELSE FMul(x, Fin(y.d, y.n))

\* numpy's float64 division: a zero divisor gives nan or an infinity
FDiv(x, y) ==
    IF x.k = "nan" \/ y.k = "nan" THEN NaN
    ELSE IF x.k = "inf"
         THEN (IF y.k = "inf" THEN NaN
               ELSE Inf(IF y.n < 0 THEN -x.n ELSE x.n))
    ELSE IF y.k = "inf" THEN Num(0)
    ELSE IF y.n = 0 THEN (IF x.n = 0 THEN NaN ELSE Inf(Sgn(x.n)))
    ELSE FMul(x, Fin(y.d, y.n))

\* x <= y in the place of x < y
FLtOrEqual(x, y) ==
    IF x.k = "nan" \/ y.k = "nan" THEN FALSE
    ELSE IF x.k = "inf" THEN x.n = -1 \/ (y.k = "inf" /\ y.n = 1)
    ELSE IF y.k = "inf" THEN y.n = 1
    ELSE x.n * y.d <= y.n * x.d

\* x < y as Python compares floats: false when either side is nan
FLt(x, y) ==
    IF x.k = "nan" \/ y.k = "nan" THEN FALSE
    ELSE IF x.k = "inf" THEN x.n = -1 /\ ~(y.k = "inf" /\ y.n = -1)
    ELSE IF y.k = "inf" THEN y.n = 1
    ELSE x.n * y.d < y.n * x.d

\* the least r in lo..hi with r * r * d >= n * SqrtDen * SqrtDen
RECURSIVE RootSearch(_, _, _, _)
RootSearch(lo, hi, n, d) ==
    IF lo >= hi THEN lo
    ELSE LET mid == (lo + hi) \div 2
         IN  IF mid * mid * d >= n * SqrtDen * SqrtDen
             THEN RootSearch(lo, mid, n, d)
             ELSE RootSearch(mid + 1, hi, n, d)

\* an upper limit of the root of n/d in units of 1/SqrtDen
RECURSIVE RootLimit(_, _, _)
RootLimit(r, n, d) ==
    IF r * r * d >= n * SqrtDen * SqrtDen THEN r ELSE RootLimit(2 * r, n, d)

FSqrt(x) ==
    IF x.k = "nan" THEN NaN
    ELSE IF x.k = "inf" THEN (IF x.n = 1 THEN x ELSE NaN)
    ELSE IF x.n < 0 THEN NaN
    ELSE Fin(RootSearch(0, RootLimit(1, x.n, x.d), x.n, x.d), SqrtDen)


-----------------------------------------------------------------------------
(* Python values *)

\* a list of numbers; v holds the elements in units of 1/Scale
PyList(s) == [t |-> "list", v |-> s]

PyNone == [t |-> "None", v |-> <<>>]

Returned(v) == [status |-> "returned", value |-> v, error |-> "none"]

Raised(e) == [status |-> "raised", value |-> <<>>, error |-> e]

\* the float of a sample element
Value(v) == Fin(v, Scale)

RECURSIVE FSum(_)
FSum(xs) == IF xs = <<>> THEN Num(0)
            ELSE FAdd(FSum(SubSeq(xs, 1, Len(xs) - 1)), xs[Len(xs)])

\* sum(data) of a list
PySum(data) == FSum([i \in 1..Len(data) |-> Value(data[i])])

\* set(data)
PySet(data) == {data[i] : i \in 1..Len(data)}

\* data.count(value)
PyCount(data, value) == Cardinality({i \in 1..Len(data) : data[i] = value})

\* sorted(values) of a set of numbers
RECURSIVE Sorted(_)
Sorted(S) ==
    IF S = {} THEN <<>>
    ELSE LET lo == CHOOSE x \in S : \A y \in S : x <= y
         IN  <<lo>> \o Sorted(S \ {lo})

\* sorted(data) of a list: each distinct value as often as it occurs
RECURSIVE Repeat(_, _)
Repeat(x, c) == IF c <= 0 THEN <<>> ELSE <<x>> \o Repeat(x, c - 1)

RECURSIVE SortedRuns(_, _)
SortedRuns(data, keys) ==
    IF keys = <<>> THEN <<>>
    ELSE Repeat(Head(keys), PyCount(data, Head(keys))) \o SortedRuns(data, Tail(keys))

PySorted(data) == SortedRuns(data, Sorted(PySet(data)))

\* np.mean(data): nan for an empty list
mean(data) == FDiv(PySum(data), Num(Len(data)))

\* np.var(data, ddof=1): nan when fewer than two observations
SquaredDeviations(data, m) ==
    [i \in 1..Len(data) |-> FMul(FSub(Value(data[i]), m), FSub(Value(data[i]), m))]

variance(data) ==
    FDiv(FSum(SquaredDeviations(data, mean(data))),
         Num(IF Len(data) - 1 > 0 THEN Len(data) - 1 ELSE 0))

\* np.std(data, ddof=1)
standard_deviation(data) == FSqrt(variance(data))

\* np.median(data)
MedianOfSorted(s, n) ==
    IF n = 0 THEN NaN
    ELSE IF n % 2 = 1 THEN Value(s[(n + 1) \div 2])
    ELSE FDiv(FAdd(Value(s[n \div 2]), Value(s[n \div 2 + 1])), Num(2))

median(data) == MedianOfSorted(PySorted(data), Len(data))

-----------------------------------------------------------------------------
(* scipy.stats at the places the analyzer calls it *)

\* stats.norm.cdf(x)
norm_cdf(x) ==
    IF x.k = "nan" THEN NaN
    ELSE IF x.k = "inf" THEN (IF x.n = 1 THEN Num(1) ELSE Num(0))
    ELSE IF x.n = 0 THEN Fin(1, 2)
    ELSE IF x.n > 0 THEN scipy.cdf
    ELSE FSub(Num(1), scipy.cdf)

\* the degrees of freedom a distribution accepts
ValidDf(df) == df.k # "nan" /\ df.n > 0

\* stats.t.cdf(x, df)
t_cdf(x, df) == IF ValidDf(df) THEN norm_cdf(x) ELSE NaN

\* stats.norm.ppf(q)
norm_ppf(q) ==
    IF q.k # "fin" THEN NaN
    ELSE IF q.n < 0 \/ q.n > q.d THEN NaN
    ELSE IF q.n = 0 THEN Inf(-1)
    ELSE IF q.n = q.d THEN Inf(1)
    ELSE IF 2 * q.n = q.d THEN Num(0)
    ELSE IF 2 * q.n > q.d THEN scipy.ppf
    ELSE FNeg(scipy.ppf)

\* stats.t.ppf(q, df)
t_ppf(q, df) == IF ValidDf(df) THEN norm_ppf(q) ELSE NaN

\* stats.chi2.sf(x, dof) for dof >= 1
chi2_sf(x, dof) ==
    IF x.k = "nan" THEN NaN
    ELSE IF x.k = "inf" THEN (IF x.n = 1 THEN Num(0) ELSE Num(1))
    ELSE IF x.n <= 0 THEN Num(1)
    ELSE scipy.sf

-----------------------------------------------------------------------------
(* The classifier *)

\* the most distinct values a categorical sample has
CategoricalLimit == 10

\* a classifier that knows no categorical data
detect_data_type_no_categorical(data) ==
    IF \A val \in PySet(data) : val = 0 \/ val = Scale THEN "binary" ELSE "continuous"

\* a classifier that counts the observations instead of the distinct values
detect_data_type_no_dedup(data) ==
    IF \A i \in 1..Len(data) : data[i] = 0 \/ data[i] = Scale
    THEN "binary"
    ELSE IF /\ Len(data) <= CategoricalLimit
            /\ \A i \in 1..Len(data) : data[i] % Scale = 0
         THEN "categorical"
         ELSE "continuous"

detect_data_type(data) ==
    LET unique_values == PySet(data)
    IN  IF \A val \in unique_values : val = 0 \/ val = Scale
        THEN "binary"
        ELSE IF /\ Cardinality(unique_values) <= CategoricalLimit
                /\ \A val \in unique_values : val % Scale = 0
             THEN "categorical"
             ELSE "continuous"

-----------------------------------------------------------------------------
(* The three tests.  The interpretation's two prose strings and the fixed   *)
(* test_details block are left out of a result.  A test is written in      *)
(* stages, each taking the values the lines before it have computed.       *)

StatisticalResult(data_type, test_type, test_statistic, p_value, lower, upper, effect_size, is_significant) ==
    [data_type |-> data_type,
     test_type |-> test_type,
     test_statistic |-> test_statistic,
     p_value |-> p_value,
     confidence_interval |-> [lower |-> lower, upper |-> upper],
     effect_size |-> effect_size,
     is_significant |-> is_significant,
     interpretation |->
         [decision |-> IF is_significant THEN "reject" ELSE "fail_to_reject"]]

\* 1 - (1 - confidence_level) / 2
UpperQuantile(confidence_level) ==
    FSub(Num(1), FDiv(FSub(Num(1), confidence_level), Num(2)))

\* 2 * (1 - cdf)
TwoTailed(cdf) == FMul(Num(2), FSub(Num(1), cdf))

\* the result of the t-test, from p_value < alpha on
WelchResult(t, p_value, cohens_d, diff, margin_of_error, alpha) ==
    Returned(StatisticalResult("continuous", "t-test", t, p_value,
                               FSub(diff, margin_of_error),
                               FAdd(diff, margin_of_error),
                               cohens_d, FLt(p_value, alpha)))

\* the t-test from its statistic, p-value, effect size and margin on
WelchStatistic(diff, pooled_se, df, pooled_sd, alpha, confidence_level) ==
    WelchResult(FDiv(diff, pooled_se),
                TwoTailed(t_cdf(FAbs(FDiv(diff, pooled_se)), df)),
                FDiv(diff, pooled_sd),
                diff,
                FMul(t_ppf(UpperQuantile(confidence_level), df), pooled_se),
                alpha)

\* the t-test from pooled_se, df and pooled_sd on
WelchMoments(mean_a, mean_b, var_a, var_b, n_a, n_b, alpha, confidence_level) ==
    WelchStatistic(
        FSub(mean_a, mean_b),
        FSqrt(FAdd(FDiv(var_a, Num(n_a)), FDiv(var_b, Num(n_b)))),
        FDiv(FMul(FAdd(FDiv(var_a, Num(n_a)), FDiv(var_b, Num(n_b))),
                  FAdd(FDiv(var_a, Num(n_a)), FDiv(var_b, Num(n_b)))),
             FAdd(FDiv(FMul(FDiv(var_a, Num(n_a)), FDiv(var_a, Num(n_a))), Num(n_a - 1)),
                  FDiv(FMul(FDiv(var_b, Num(n_b)), FDiv(var_b, Num(n_b))), Num(n_b - 1)))),
        FSqrt(FDiv(FAdd(FMul(Num(n_a - 1), var_a), FMul(Num(n_b - 1), var_b)),
                   Num(n_a + n_b - 2))),
        alpha, confidence_level)

welch_t_test(group_a, group_b, alpha, confidence_level) ==
    WelchMoments(mean(group_a), mean(group_b), variance(group_a), variance(group_b),
                 Len(group_a), Len(group_b), alpha, confidence_level)

\* the result of the z-test, from p_value < alpha on
ZResult(z, p_value, diff, margin_of_error, alpha) ==
    Returned(StatisticalResult("binary", "z-test", z, p_value,
                               FSub(diff, margin_of_error),
                               FAdd(diff, margin_of_error),
                               diff, FLt(p_value, alpha)))

\* the z-test from its statistic, p-value and margin on
ZStatistic(diff, standard_error, se_diff, alpha, confidence_level) ==
    ZResult(FDiv(diff, standard_error),
            TwoTailed(norm_cdf(FAbs(FDiv(diff, standard_error)))),
            diff,
            FMul(norm_ppf(UpperQuantile(confidence_level)), se_diff),
            alpha)

\* the z-test from standard_error and se_diff on
ZProportions(p_a, p_b, p_pool, n_a, n_b, alpha, confidence_level) ==
    ZStatistic(
        FSub(p_a, p_b),
        FSqrt(FMul(FMul(p_pool, FSub(Num(1), p_pool)),
                   FAdd(Fin(1, n_a), Fin(1, n_b)))),
        FSqrt(FAdd(FDiv(FMul(p_a, FSub(Num(1), p_a)), Num(n_a)),
                   FDiv(FMul(p_b, FSub(Num(1), p_b)), Num(n_b)))),
        alpha, confidence_level)

\* the z-test from p_a, p_b and p_pool on; x_a / n_a and x_b / n_b divide
\* Python numbers, which raises on a zero divisor
ZCounts(n_a, n_b, x_a, x_b, alpha, confidence_level) ==
    IF n_a = 0 \/ n_b = 0 THEN Raised("ZeroDivisionError")
    ELSE ZProportions(FDiv(x_a, Num(n_a)), FDiv(x_b, Num(n_b)),
                      FDiv(FAdd(x_a, x_b), Num(n_a + n_b)),
                      n_a, n_b, alpha, confidence_level)

two_proportion_z_test(group_a, group_b, alpha, confidence_level) ==
    ZCounts(Len(group_a), Len(group_b), PySum(group_a), PySum(group_b),
            alpha, confidence_level)

\* the table chi_squared_test counts: a row <<count_a, count_b>> per distinct
\* value of both groups, in ascending order of the values
ContingencyRows(group_a, group_b, unique_values) ==
    [r \in 1..Len(unique_values) |->
        <<PyCount(group_a, unique_values[r]), PyCount(group_b, unique_values[r])>>]

\* a table with rows for the values of group_a only
ContingencyTableOfGroupA(group_a, group_b) ==
    ContingencyRows(group_a, group_b, Sorted(PySet(group_a)))

ContingencyTable(group_a, group_b) ==
    ContingencyRows(group_a, group_b, Sorted(PySet(group_a \o group_b)))

RECURSIVE IntSum(_)
IntSum(xs) == IF xs = <<>> THEN 0 ELSE xs[1] + IntSum(Tail(xs))

\* scipy's expected frequency of a cell: row total * column total / total
ExpectedFreq(observed, r, j) ==
    Fin((observed[r][1] + observed[r][2])
            * IntSum([i \in 1..Len(observed) |-> observed[i][j]]),
        IntSum([i \in 1..Len(observed) |-> observed[i][1] + observed[i][2]]))

\* Yates' continuity correction of an observed count o with expected
\* frequency e: o moves towards e by at most 1/2
YatesCorrected(o, e) ==
    IF FLt(e, o) THEN (IF FLt(FSub(o, e), Fin(1, 2)) THEN e ELSE FSub(o, Fin(1, 2)))
    ELSE IF FLt(o, e) THEN (IF FLt(FSub(e, o), Fin(1, 2)) THEN e ELSE FAdd(o, Fin(1, 2)))
    ELSE o

\* (observed - expected)^2 / expected of one cell
ChiTerm(o, e) == FDiv(FMul(FSub(o, e), FSub(o, e)), e)

\* the cells of a table with two columns, row by row
Cells(observed) ==
    [c \in 1..(2 * Len(observed)) |-> <<(c + 1) \div 2, 2 - (c % 2)>>]

\* the statistic chi2_contingency sums; correction says whether Yates'
\* correction applies
ChiStatistic(observed, correction) ==
    FSum([c \in 1..(2 * Len(observed)) |->
            ChiTerm(IF correction
                    THEN YatesCorrected(Num(observed[Cells(observed)[c][1]][Cells(observed)[c][2]]),
                                        ExpectedFreq(observed, Cells(observed)[c][1], Cells(observed)[c][2]))
                    ELSE Num(observed[Cells(observed)[c][1]][Cells(observed)[c][2]]),
                    ExpectedFreq(observed, Cells(observed)[c][1], Cells(observed)[c][2]))])

\* what chi2_contingency returns for a statistic and its degrees of freedom
ChiOutcome(chi2, dof) ==
    Returned([chi2 |-> chi2, p_value |-> chi2_sf(chi2, dof), dof |-> dof])

\* stats.chi2_contingency(observed) of a table with two columns, with its
\* default correction=True: Yates' correction when dof = 1
chi2_contingency(observed) ==
    IF Len(observed) = 0 THEN Raised("ValueError")
    ELSE IF \E r \in 1..Len(observed), j \in 1..2 : ExpectedFreq(observed, r, j).n = 0
         THEN Raised("ValueError")
    ELSE IF Len(observed) - 1 = 0
         THEN Returned([chi2 |-> Num(0), p_value |-> Num(1), dof |-> 0])
    ELSE ChiOutcome(ChiStatistic(observed, Len(observed) - 1 = 1), Len(observed) - 1)

\* the chi-squared test from effect_size on
ChiSquaredEffect(chi2, p_value, effect_size, alpha) ==
    Returned(StatisticalResult("categorical", "chi-squared", chi2, p_value,
                               Num(0), FMul(effect_size, Num(2)),
                               effect_size, FLt(p_value, alpha)))

\* the chi-squared test from the outcome of chi2_contingency on
ChiSquaredResult(test, total_n, alpha) ==
    IF test.status = "raised" THEN test
    ELSE ChiSquaredEffect(test.value.chi2, test.value.p_value,
                          FSqrt(FDiv(test.value.chi2, Num(total_n))), alpha)

chi_squared_test(group_a, group_b, alpha, confidence_level) ==
    ChiSquaredResult(chi2_contingency(ContingencyTable(group_a, group_b)),
                     Len(group_a) + Len(group_b), alpha)

-----------------------------------------------------------------------------
(* The selector *)

StatisticalInputs(group_a, group_b, significance_level, power, confidence_level) ==
    [group_a |-> group_a,
     group_b |-> group_b,
     significance_level |-> significance_level,
     power |-> power,
     confidence_level |-> confidence_level]

\* a selector for which binary wins only when both groups are binary
ResolveDataTypeBothBinary(data_type_a, data_type_b) ==
    IF data_type_a = "binary" /\ data_type_b = "binary" THEN "binary"
    ELSE IF data_type_a = "categorical" \/ data_type_b = "categorical" THEN "categorical"
    ELSE "continuous"

\* the type analyze_data resolves from the types of the two groups
ResolveDataType(data_type_a, data_type_b) ==
    IF data_type_a = "binary" \/ data_type_b = "binary" THEN "binary"
    ELSE IF data_type_a = "categorical" \/ data_type_b = "categorical" THEN "categorical"
    ELSE "continuous"

\* a dispatch that sends everything that is not binary to the t-test
ApplyTestNoChiSquared(data_type, group_a, group_b, significance_level, confidence_level) ==
    IF data_type = "binary"
    THEN two_proportion_z_test(group_a, group_b, significance_level, confidence_level)
    ELSE welch_t_test(group_a, group_b, significance_level, confidence_level)

\* the test analyze_data applies to a resolved type
ApplyTest(data_type, group_a, group_b, significance_level, confidence_level) ==
    IF data_type = "binary"
    THEN two_proportion_z_test(group_a, group_b, significance_level, confidence_level)
    ELSE IF data_type = "categorical"
    THEN chi_squared_test(group_a, group_b, significance_level, confidence_level)
    ELSE welch_t_test(group_a, group_b, significance_level, confidence_level)

analyze_data(in) ==
    \* set(data) of None raises in detect_data_type
    IF in.group_a.t = "None" \/ in.group_b.t = "None" THEN Raised("TypeError")
    ELSE ApplyTest(ResolveDataType(detect_data_type(in.group_a.v),
                                   detect_data_type(in.group_b.v)),
                   in.group_a.v, in.group_b.v,
                   in.significance_level, in.confidence_level)

-----------------------------------------------------------------------------
(* The ingestion wrapper *)

\* d.get('continuous_values')
GetContinuousValues(d) ==
    IF "continuous_values" \in DOMAIN d THEN d.continuous_values ELSE PyNone

\* [1] * conversions + [0] * (total_users - conversions)
BinaryArray(conversions, total_users) ==
    PyList(Repeat(Scale, conversions) \o Repeat(0, total_users - conversions))

convert_ab_test_data_to_analyzer_format(group_a_data, group_b_data) ==
    IF /\ "continuous_values" \in DOMAIN group_a_data
       /\ "continuous_values" \in DOMAIN group_b_data
    THEN [group_a |-> group_a_data.continuous_values,
          group_b |-> group_b_data.continuous_values]
    ELSE [group_a |-> BinaryArray(group_a_data.conversions, group_a_data.total_users),
          group_b |-> BinaryArray(group_b_data.conversions, group_b_data.total_users)]

calculate_continuous_metrics(data) ==
    IF data = <<>>
    THEN [mean |-> Num(0), standard_deviation |-> Num(0), min |-> Num(0),
          max |-> Num(0), median |-> Num(0), count |-> 0]
    ELSE [mean |-> mean(data),
          standard_deviation |-> standard_deviation(data),
          min |-> Value(PySorted(data)[1]),
          max |-> Value(PySorted(data)[Len(data)]),
          median |-> median(data),
          count |-> Len(data)]

\* base_result.__dict__, with continuous_metrics when the data is continuous
WithContinuousMetrics(base, in) ==
    IF base.status = "raised" THEN base
    ELSE IF base.value.data_type = "continuous"
    THEN Returned(
           [data_type |-> base.value.data_type,
            test_type |-> base.value.test_type,
            test_statistic |-> base.value.test_statistic,
            p_value |-> base.value.p_value,
            confidence_interval |-> base.value.confidence_interval,
            effect_size |-> base.value.effect_size,
            is_significant |-> base.value.is_significant,
            interpretation |-> base.value.interpretation,
            continuous_metrics |->
                [group_a |-> calculate_continuous_metrics(in.group_a.v),
                 group_b |-> calculate_continuous_metrics(in.group_b.v)]])
    ELSE base

analyze_dynamic_ab_test(in) == WithContinuousMetrics(analyze_data(in), in)

\* the StatisticalInputs perform_dynamic_check builds from the converted data
InputsFrom(data, params) ==
    StatisticalInputs(data.group_a, data.group_b, params.significance_level,
                      params.power, params.confidence_level)

\* the StatisticalInputs built from the first and the last variant
DynamicCheckInputsFirstAndLast(variants, params) ==
    InputsFrom(convert_ab_test_data_to_analyzer_format(
                   [conversions |-> variants[1].conversions,
                    total_users |-> variants[1].visitors,
                    continuous_values |-> GetContinuousValues(variants[1])],
                   [conversions |-> variants[Len(variants)].conversions,
                    total_users |-> variants[Len(variants)].visitors,
                    continuous_values |-> GetContinuousValues(variants[Len(variants)])]),
               params)

\* the StatisticalInputs perform_dynamic_check builds from its first two variants
DynamicCheckInputs(variants, params) ==
    InputsFrom(convert_ab_test_data_to_analyzer_format(
                   [conversions |-> variants[1].conversions,
                    total_users |-> variants[1].visitors,
                    continuous_values |-> GetContinuousValues(variants[1])],
                   [conversions |-> variants[2].conversions,
                    total_users |-> variants[2].visitors,
                    continuous_values |-> GetContinuousValues(variants[2])]),
               params)

perform_dynamic_check(variants, params) ==
    IF Len(variants) < 2 THEN Raised("ValueError")
    ELSE analyze_dynamic_ab_test(DynamicCheckInputs(variants, params))

-----------------------------------------------------------------------------
(* The calls the model makes *)

\* sample values: 0, 1, 2 and a non-integral one below 1
Values == {0, Scale, 2 * Scale, 1}

ShortSamples == UNION {[1..n -> Values] : n \in 0..MaxLen}

\* len integral observations that cycle through 2, 3, ... with the given
\* number of distinct values
Cycle(len, distinct) == [i \in 1..len |-> (2 + ((i - 1) % distinct)) * Scale]

LongSamples == {Cycle(LongLen, c) : c \in (MaxDistinct - 2)..MaxDistinct}

Whole(s) == [i \in 1..Len(s) |-> s[i] * Scale]

\* the groups of the specification's scenarios 2 and 3, and a constant
\* non-integral group
ScenarioSamples ==
    {Whole(<<10, 12, 11, 13, 9>>), Whole(<<15, 16, 14, 17, 15>>),
     Whole(<<1, 2, 3, 1, 2>>), Whole(<<3, 3, 3, 1, 1>>),
     <<Scale + 1, Scale + 1>>}

Samples == ShortSamples \cup LongSamples \cup ScenarioSamples

\* <<significance_level, confidence_level>>: both inside (0, 1), or one of
\* them on the boundary or beyond it
Levels ==
    {<<Fin(1, 20), Fin(19, 20)>>,
     <<Num(0), Fin(19, 20)>>, <<Fin(3, 2), Fin(19, 20)>>,
     <<Fin(1, 20), Num(0)>>, <<Fin(1, 20), Fin(3, 2)>>}

Power == Fin(4, 5)

AnalyzeRequests ==
    {[op |-> "analyze_data",
      inputs |-> StatisticalInputs(PyList(a), PyList(b), lv[1], Power, lv[2])] :
        a \in Samples, b \in Samples, lv \in Levels}

\* continuous_values of a variant: a continuous, a binary and a categorical list
VariantValues == {<<1, Scale + 1>>, <<0, Scale>>, <<2 * Scale, 3 * Scale>>}

Variants ==
    {[conversions |-> c, visitors |-> v] : c \in 0..1, v \in 1..MaxVisitors}
    \cup {[conversions |-> 1, visitors |-> MaxVisitors, continuous_values |-> PyList(s)] :
            s \in VariantValues}

CheckRequests ==
    {[op |-> "perform_dynamic_check", variants |-> vs,
      params |-> [significance_level |-> lv[1], power |-> Power,
                  confidence_level |-> lv[2]]] :
        vs \in UNION {[1..n -> Variants] : n \in 0..MaxVariants}, lv \in Levels}

\* what scipy returns at an ordinary argument: cdf at a positive finite
\* argument (in (1/2, 1]), sf at a positive finite argument (in [0, 1)),
\* ppf at a probability in (1/2, 1) (positive and finite)
Scipy ==
    {[cdf |-> Fin(39, 40), sf |-> Fin(1, 20), ppf |-> Fin(49, 25)],
     [cdf |-> Num(1), sf |-> Num(0), ppf |-> Fin(49, 25)],
     [cdf |-> Fin(3, 4), sf |-> Fin(1, 2), ppf |-> Fin(1, 2)]}

NoOutcome == [status |-> "none", value |-> <<>>, error |-> "none"]

\* data_type_a and data_type_b as far as analyze_data gets to assign them
DetectedTypes(in) ==
    [a |-> IF in.group_a.t = "list" THEN detect_data_type(in.group_a.v) ELSE "unset",
     b |-> IF in.group_a.t = "list" /\ in.group_b.t = "list"
           THEN detect_data_type(in.group_b.v) ELSE "unset"]

NoTypes == [a |-> "unset", b |-> "unset"]

Init ==
    /\ request \in AnalyzeRequests \cup CheckRequests
    /\ scipy \in Scipy
    /\ pc = "ready"
    /\ inputs = <<>>
    /\ data_types = NoTypes
    /\ outcome = NoOutcome

AnalyzeData ==
    /\ pc = "ready"
    /\ request.op = "analyze_data"
    /\ inputs' = <<request.inputs>>
    /\ data_types' = DetectedTypes(request.inputs)
    /\ outcome' = analyze_data(request.inputs)
    /\ pc' = "done"
    /\ UNCHANGED <<request, scipy>>

PerformDynamicCheck ==
    /\ pc = "ready"
    /\ request.op = "perform_dynamic_check"
    /\ inputs' = IF Len(request.variants) < 2 THEN <<>>
                 ELSE <<DynamicCheckInputs(request.variants, request.params)>>
    /\ data_types' = IF Len(request.variants) < 2 THEN NoTypes
                     ELSE DetectedTypes(DynamicCheckInputs(request.variants, request.params))
    /\ outcome' = perform_dynamic_check(request.variants, request.params)
    /\ pc' = "done"
    /\ UNCHANGED <<request, scipy>>

Next == AnalyzeData \/ PerformDynamicCheck

Spec == Init /\ [][Next]_vars

-----------------------------------------------------------------------------
(* The terms of the properties     *)

\* analyze_data was called on two lists and the call is over
Analyzed ==
    /\ pc = "done"
    /\ inputs # <<>>
    /\ inputs[1].group_a.t = "list"
    /\ inputs[1].group_b.t = "list"

GroupA == inputs[1].group_a.v

GroupB == inputs[1].group_b.v

Result == outcome.value

\* the classes of section 3 of the specification
AllZeroOrOne(g) == \A i \in 1..Len(g) : g[i] = 0 \/ g[i] = Scale

Distinct(g) == {v \in 0..(20 * Scale) : \E i \in 1..Len(g) : g[i] = v}

AllIntegral(g) == \A i \in 1..Len(g) : \E w \in 0..20 : g[i] = w * Scale

SpecType(g) ==
    IF AllZeroOrOne(g) THEN "binary"
    ELSE IF Cardinality(Distinct(g)) <= 10 /\ AllIntegral(g) THEN "categorical"
    ELSE "continuous"

\* a level lies in the open interval (0, 1)
InUnitInterval(x) == x.k = "fin" /\ 0 < x.n /\ x.n < x.d

-----------------------------------------------------------------------------
(* Properties *)

\* C1: whenever analyze_data is given two non-empty samples of which at least
\* one has only the values 0 and 1, it returns the result of the z-test
\* (data_type "binary", test_type "z-test"), whatever the other sample is.
C1_BinaryGroupRunsZTest ==
    (/\ Analyzed
     /\ GroupA # <<>> /\ GroupB # <<>>
     /\ AllZeroOrOne(GroupA) \/ AllZeroOrOne(GroupB))
    => /\ outcome.status = "returned"
       /\ Result.data_type = "binary"
       /\ Result.test_type = "z-test"

\* a binary group met a continuous one and the z-test ran
C1_Witness ==
    /\ Analyzed
    /\ GroupA # <<>> /\ AllZeroOrOne(GroupA)
    /\ SpecType(GroupB) = "continuous"
    /\ outcome.status = "returned"
    /\ Result.test_type = "z-test"

\* C2: when neither sample is binary, analyze_data returns the chi-squared
\* test's result if at least one sample is categorical and the t-test's
\* result exactly when both are continuous; and every result pairs its
\* data_type with the one test_type of that type.
C2_CategoricalDominatesContinuous ==
    /\ (Analyzed /\ ~AllZeroOrOne(GroupA) /\ ~AllZeroOrOne(GroupB))
       => /\ outcome.status = "returned"
          /\ (SpecType(GroupA) = "categorical" \/ SpecType(GroupB) = "categorical")
             => Result.test_type = "chi-squared"
          /\ Result.test_type = "t-test"
             <=> (SpecType(GroupA) = "continuous" /\ SpecType(GroupB) = "continuous")
    /\ (pc = "done" /\ outcome.status = "returned")
       => <<Result.data_type, Result.test_type>> \in
            {<<"binary", "z-test">>, <<"categorical", "chi-squared">>,
             <<"continuous", "t-test">>}

\* a categorical group met a continuous one and the chi-squared test ran
C2_Witness ==
    /\ Analyzed
    /\ SpecType(GroupA) = "continuous"
    /\ SpecType(GroupB) = "categorical"
    /\ outcome.status = "returned"
    /\ Result.test_type = "chi-squared"

\* C3: detect_data_type gives "binary" exactly to the samples whose values
\* are all 0 or 1, "categorical" exactly to the others that have at most 10
\* distinct values, all integral, and "continuous" to the rest; two samples
\* with the same set of distinct values get the same type.
C3_ClassifierBySetOfValues ==
    Analyzed
    => /\ data_types.a = SpecType(GroupA)
       /\ data_types.b = SpecType(GroupB)
       /\ Distinct(GroupA) = Distinct(GroupB) => data_types.a = data_types.b

\* a sample of more than 10 observations with 10 distinct integral values is
\* categorical, and one with 11 is continuous
C3_Witness ==
    /\ Analyzed
    /\ Len(GroupA) > 10
    /\ Cardinality(Distinct(GroupA)) = 10
    /\ data_types.a = "categorical"
    /\ Cardinality(Distinct(GroupB)) = 11
    /\ AllIntegral(GroupB)
    /\ data_types.b = "continuous"

\* x < y and x <= y of two numbers, false when either is nan
Below(x, y) ==
    /\ x.k # "nan" /\ y.k # "nan"
    /\ x # y
    /\ \/ x.k = "inf" /\ x.n = -1
       \/ y.k = "inf" /\ y.n = 1
       \/ x.k = "fin" /\ y.k = "fin" /\ x.n * y.d < y.n * x.d

AtMost(x, y) == x.k # "nan" /\ y.k # "nan" /\ (x = y \/ Below(x, y))

\* C4: in every result, is_significant is true exactly when p_value is below
\* significance_level, and decision is "reject" exactly when is_significant
\* is true and "fail_to_reject" otherwise.
C4_SignificantIffBelowLevel ==
    (pc = "done" /\ inputs # <<>> /\ outcome.status = "returned")
    => /\ Result.is_significant <=> Below(Result.p_value, inputs[1].significance_level)
       /\ Result.interpretation.decision =
            IF Result.is_significant THEN "reject" ELSE "fail_to_reject"

\* a z-test whose p-value 0 is below the level 0.05 rejects
C4_Witness ==
    /\ pc = "done" /\ inputs # <<>> /\ outcome.status = "returned"
    /\ Result.test_type = "z-test"
    /\ Result.p_value = Num(0)
    /\ inputs[1].significance_level = Fin(1, 20)
    /\ Result.is_significant
    /\ Result.interpretation.decision = "reject"

\* C5: on two non-empty samples and a confidence_level in (0, 1), the result
\* has a p_value in [0, 1] and, for the t-test and the z-test, an interval
\* with lower <= upper.
C5_PValueAndIntervalInRange ==
    (/\ Analyzed
     /\ GroupA # <<>> /\ GroupB # <<>>
     /\ InUnitInterval(inputs[1].confidence_level))
    => /\ outcome.status = "returned"
       /\ AtMost(Num(0), Result.p_value)
       /\ AtMost(Result.p_value, Num(1))
       /\ Result.test_type \in {"t-test", "z-test"}
          => AtMost(Result.confidence_interval.lower, Result.confidence_interval.upper)

\* C6: a call with an empty group, or with a group of one observation when
\* the t-test is the test to run, raises an error.
C6_InsufficientDataRaises ==
    (/\ Analyzed
     /\ \/ GroupA = <<>>
        \/ GroupB = <<>>
        \/ /\ SpecType(GroupA) = "continuous"
           /\ SpecType(GroupB) = "continuous"
           /\ Len(GroupA) = 1 \/ Len(GroupB) = 1)
    => outcome.status = "raised"

\* C7: a call whose significance_level or confidence_level is outside (0, 1)
\* raises an error before any group is classified.
C7_InvalidLevelsRejected ==
    (/\ pc = "done"
     /\ inputs # <<>>
     /\ \/ ~InUnitInterval(inputs[1].significance_level)
        \/ ~InUnitInterval(inputs[1].confidence_level))
    => /\ outcome.status = "raised"
       /\ data_types = NoTypes

\* [1] * conversions + [0] * (visitors - conversions)
Expansion(conversions, visitors) ==
    [i \in 1..visitors |-> IF i <= conversions THEN Scale ELSE 0]

\* C8: perform_dynamic_check on two variants without continuous_values
\* analyses the 0/1 expansions of their conversions and visitors, and the
\* z-test runs on them.
C8_ConversionsExpand ==
    (/\ pc = "done"
     /\ request.op = "perform_dynamic_check"
     /\ Len(request.variants) >= 2
     /\ "continuous_values" \notin DOMAIN request.variants[1]
     /\ "continuous_values" \notin DOMAIN request.variants[2])
    => /\ inputs # <<>>
       /\ inputs[1].group_a =
            PyList(Expansion(request.variants[1].conversions, request.variants[1].visitors))
       /\ inputs[1].group_b =
            PyList(Expansion(request.variants[2].conversions, request.variants[2].visitors))
       /\ outcome.status = "returned"
       /\ Result.test_type = "z-test"

\* the groups of scenario 2
Scenario2 ==
    /\ Analyzed
    /\ GroupA = Whole(<<10, 12, 11, 13, 9>>)
    /\ GroupB = Whole(<<15, 16, 14, 17, 15>>)

\* C9 as stated: on the groups of scenario 2 both groups are continuous and
\* the t-test runs, with a negative effect_size.
C9_ScenarioRunsTTest ==
    Scenario2
    => /\ data_types = [a |-> "continuous", b |-> "continuous"]
       /\ outcome.status = "returned"
       /\ Result.test_type = "t-test"
       /\ Below(Result.effect_size, Num(0))

\* C9: on the groups of scenario 2 both groups are categorical (five distinct
\* integral values each) and the chi-squared test runs; its effect_size is
\* not negative.
C9_ScenarioRunsChiSquared ==
    Scenario2
    => /\ data_types = [a |-> "categorical", b |-> "categorical"]
       /\ outcome.status = "returned"
       /\ Result.test_type = "chi-squared"
       /\ AtMost(Num(0), Result.effect_size)

\* scenario 2 was analysed and the chi-squared test returned
C9_Witness ==
    /\ Scenario2
    /\ outcome.status = "returned"
    /\ Result.data_type = "categorical"
    /\ Result.test_statistic = Num(10)

\* the sum of a sample's values, in units of 1/Scale
Total(g) == IntSum(g)

Constant(g) == \A i \in 1..Len(g) : g[i] = g[1]

\* the marker of a division by zero: nan for 0/0, else the infinity of the
\* dividend's sign
Marker(sign) == IF sign = 0 THEN NaN ELSE Inf(sign)

\* C10: when the pooled standard error of the z-test is zero (the pooled
\* proportion is 0 or 1) or that of the t-test is zero (both groups are
\* constant), test_statistic is nan or an infinity, the same for the same
\* groups: nan when the two means agree, else the infinity of the sign of
\* mean(A) - mean(B).
C10_ZeroDivisorGivesNonFinite ==
    (Analyzed /\ outcome.status = "returned")
    => /\ (/\ Result.test_type = "z-test"
           /\ \/ Total(GroupA) + Total(GroupB) = 0
              \/ Total(GroupA) + Total(GroupB) = (Len(GroupA) + Len(GroupB)) * Scale)
          => Result.test_statistic =
               Marker(Sgn(Total(GroupA) * Len(GroupB) - Total(GroupB) * Len(GroupA)))
       /\ (/\ Result.test_type = "t-test"
           /\ Len(GroupA) >= 2 /\ Len(GroupB) >= 2
           /\ Constant(GroupA) /\ Constant(GroupB))
          => Result.test_statistic = Marker(Sgn(GroupA[1] - GroupB[1]))

\* two groups of ones give the z-test the statistic nan
C10_Witness ==
    /\ Analyzed /\ outcome.status = "returned"
    /\ Result.test_type = "z-test"
    /\ Len(GroupA) = 2 /\ Len(GroupB) = 2
    /\ \A i \in 1..2 : GroupA[i] = Scale /\ GroupB[i] = Scale
    /\ Result.test_statistic = NaN

\* C11: perform_dynamic_check with fewer than two variants raises ValueError
\* ('Need at least 2 variants for comparison') and has built no inputs and
\* classified nothing; with two or more variants group A comes from
\* variants[0] and group B from variants[1], and the outcome is that of the
\* call with these two variants alone.
C11_FirstTwoVariantsCompared ==
    (pc = "done" /\ request.op = "perform_dynamic_check")
    => IF Len(request.variants) < 2
       THEN /\ outcome = Raised("ValueError")
            /\ inputs = <<>>
            /\ data_types = NoTypes
       ELSE /\ inputs # <<>>
            /\ inputs[1].group_a = GetContinuousValues(request.variants[1])
            /\ inputs[1].group_b = GetContinuousValues(request.variants[2])
            /\ outcome = perform_dynamic_check(SubSeq(request.variants, 1, 2),
                                               request.params)

\* three variants with continuous_values, the third unlike the second, were
\* compared and a result came back
C11_Witness ==
    /\ pc = "done"
    /\ request.op = "perform_dynamic_check"
    /\ Len(request.variants) = 3
    /\ \A i \in 1..3 : "continuous_values" \in DOMAIN request.variants[i]
    /\ request.variants[3] # request.variants[2]
    /\ request.variants[3] # request.variants[1]
    /\ inputs # <<>>
    /\ inputs[1].group_b = request.variants[2].continuous_values
    /\ outcome.status = "returned"

\* chi_squared_test was called on the two lists analyze_data was given
ChiSquaredRan ==
    /\ Analyzed
    /\ ResolveDataType(data_types.a, data_types.b) = "categorical"

\* the distinct values of both groups
Union(a, b) == {a[i] : i \in 1..Len(a)} \cup {b[i] : i \in 1..Len(b)}

\* the r-th smallest of a set of numbers
Smallest(S, r) == CHOOSE v \in S : Cardinality({u \in S : u < v}) = r - 1

Occurrences(g, v) == Cardinality({i \in 1..Len(g) : g[i] = v})

\* C12: the contingency table of chi_squared_test has one row per distinct
\* value of both groups, in ascending order of the values, and two columns;
\* row v holds the occurrences of v in group A and in group B, so every row
\* has a positive total and column g sums to the length of group g.  For
\* [1,2,3,1,2] and [3,3,3,1,1] the rows are those of 1, 2 and 3.
C12_ContingencyTableCounts ==
    ChiSquaredRan
    => /\ Len(ContingencyTable(GroupA, GroupB)) = Cardinality(Union(GroupA, GroupB))
       /\ \A r \in 1..Len(ContingencyTable(GroupA, GroupB)) :
            /\ Len(ContingencyTable(GroupA, GroupB)[r]) = 2
            /\ ContingencyTable(GroupA, GroupB)[r][1] =
                 Occurrences(GroupA, Smallest(Union(GroupA, GroupB), r))
            /\ ContingencyTable(GroupA, GroupB)[r][2] =
                 Occurrences(GroupB, Smallest(Union(GroupA, GroupB), r))
            /\ ContingencyTable(GroupA, GroupB)[r][1]
                 + ContingencyTable(GroupA, GroupB)[r][2] > 0
       /\ IntSum([r \in 1..Len(ContingencyTable(GroupA, GroupB)) |->
                    ContingencyTable(GroupA, GroupB)[r][1]]) = Len(GroupA)
       /\ IntSum([r \in 1..Len(ContingencyTable(GroupA, GroupB)) |->
                    ContingencyTable(GroupA, GroupB)[r][2]]) = Len(GroupB)
       /\ (GroupA = Whole(<<1, 2, 3, 1, 2>>) /\ GroupB = Whole(<<3, 3, 3, 1, 1>>))
          => ContingencyTable(GroupA, GroupB) = <<<<2, 2>>, <<2, 0>>, <<1, 3>>>>

\* the chi-squared test ran on the groups of scenario 3 and returned the
\* statistic of the table <<2, 2>>, <<2, 0>>, <<1, 3>>
C12_Witness ==
    /\ ChiSquaredRan
    /\ GroupA = Whole(<<1, 2, 3, 1, 2>>)
    /\ GroupB = Whole(<<3, 3, 3, 1, 1>>)
    /\ outcome.status = "returned"
    /\ Result.test_type = "chi-squared"
    /\ Result.test_statistic = Num(3)

\* Pearson's sum over the cells of (observed - expected)^2 / expected
PearsonSum(observed) ==
    FSum([c \in 1..(2 * Len(observed)) |->
            ChiTerm(Num(observed[(c + 1) \div 2][2 - (c % 2)]),
                    ExpectedFreq(observed, (c + 1) \div 2, 2 - (c % 2)))])

\* C13: whenever chi_squared_test returns, tables of two rows included,
\* test_statistic is Pearson's uncorrected sum over the cells of the
\* contingency table, and effect_size is the square root of that sum divided
\* by nA + nB.
C13_UncorrectedPearson ==
    (ChiSquaredRan /\ outcome.status = "returned")
    => /\ Result.test_statistic = PearsonSum(ContingencyTable(GroupA, GroupB))
       /\ Result.effect_size =
            FSqrt(FDiv(PearsonSum(ContingencyTable(GroupA, GroupB)),
                       Num(Len(GroupA) + Len(GroupB))))

=============================================================================
